---------------------------- MODULE Spec2Model ----------------------------
(***************************************************************************)
(* Model of Scripts/model2cntk/unimodel/cntkinstance.py: the graph         *)
(* assembler (CntkApiInstance), the operator builders (ApiSetup), the      *)
(* dilated-kernel expansion (BlockApiSetup.convolution.weights_parameter)  *)
(* and the evaluation driver (Evaluator.eval_model).                       *)
(*                                                                         *)
(* Graph-node handles are natural numbers handed out by a counter: every   *)
(* native call that creates a node (cntk.input, an ops.* call) yields a    *)
(* fresh handle, and handles are compared by identity.                     *)
(*                                                                         *)
(* Python's None is the empty tuple <<>>, a present value v is <<v>>.      *)
(***************************************************************************)
EXTENDS Integers, Sequences, FiniteSets, TLC

\* ------------------------------------------------------------------------
\* Bounds of the model
\* ------------------------------------------------------------------------
MaxSorted == 3      \* length of cntk_sorted_layers
MaxInputs == 2      \* length of a layer's inputs list (assembler)
MaxProviders == 2   \* length of the data_provider list
MaxTensors == 5     \* length of a parameter_tensor list (builders)
MaxBuilderInputs == 3   \* length of the resolved input list (builders)
DataLen == 1        \* number of values of a pretrained tensor
MaxKernel == 3      \* kernel extent per spatial axis
MaxDilation == 3    \* dilation factor per spatial axis
MaxChannels == 2    \* extent of the leading (channel) axis of a kernel tensor
MaxBatches == 3     \* int(dataset_size / batch_size) of the evaluator

None == <<>>
Some(v) == <<v>>

LayerIds == {"A", "B", "C"}
ProviderNames == {"x", "y", "A"}
OverrideKeys == {"x", "z"}

\* Sequences over S of length lo..hi
SeqsBetween(S, lo, hi) == UNION {[1..n -> S] : n \in lo..hi}

Range(f) == {f[k] : k \in DOMAIN f}

\* A set of strings as a sequence, in a fixed order (dict iteration order).
RECURSIVE SetToSeq(_)
SetToSeq(S) ==
    IF S = {} THEN <<>>
    ELSE LET k == CHOOSE a \in S : TRUE IN <<k>> \o SetToSeq(S \ {k})

\* ------------------------------------------------------------------------
\* ApiSetup: the operator builders
\* ------------------------------------------------------------------------
\* The attributes getattr(ApiSetup, name) finds.
ApiSetupNames ==
    {"convolution", "batch_normalization", "pooling", "relu", "dense", "plus",
     "classification_error", "cross_entropy_with_softmax", "dropout", "lrn",
     "splice", "psroi_pooling", "softmax"}

PairwiseNames ==
    {"plus", "classification_error", "cross_entropy_with_softmax", "psroi_pooling"}

\* Rational numbers as <<numerator, denominator>>; Python's float division
\* 1 / g is the rational 1/g (rounding to float32 is not modelled).
Rat(n, d) == <<n, d>>
RatTimes(m, r) == Rat(m * r[1], r[2])

\* A pretrained tensor is the sequence of its data values.
\* Layer descriptor: [op_name, op_type, inputs, parameter_tensor].

\* scale_init = 1 / global_scale if global_scale != 0 else 0
\* (variant: the division without its guard)
InvScaleUnguarded(global_scale) == Rat(1, global_scale)

InvScale(global_scale) ==
    IF global_scale # 0 THEN Rat(1, global_scale) ELSE Rat(0, 1)

\* len(cntk_layer.parameter_tensor) < 3
\* (variant: the comparison written <= 3)
TooFewTensorsInclusive(parameter_tensor) == Len(parameter_tensor) <= 3

TooFewTensors(parameter_tensor) == Len(parameter_tensor) < 3

Scalar(n) == [kind |-> "scalar", v |-> Rat(n, 1)]
ScalarRat(r) == [kind |-> "scalar", v |-> r]
Tensor(rs) == [kind |-> "tensor", v |-> rs]

BNFail(err) ==
    [status |-> err, params |-> 0, output |-> FALSE, inv_scale |-> None,
     scale_init |-> Scalar(1), bias_init |-> Scalar(0),
     mean_init |-> Scalar(1), var_init |-> Scalar(0)]

\* ApiSetup.batch_normalization
batch_normalization(cntk_layer, inputs) ==
    LET pt == cntk_layer.parameter_tensor IN
    IF Len(inputs) < 1 THEN BNFail("IndexError")
    ELSE IF pt = <<>> THEN
        [status |-> "ok", params |-> 4, output |-> TRUE, inv_scale |-> None,
         scale_init |-> Scalar(1), bias_init |-> Scalar(0),
         mean_init |-> Scalar(1), var_init |-> Scalar(0)]
    ELSE IF TooFewTensors(pt) THEN BNFail("AssertionError")
    ELSE IF Len(pt[3]) < 1 THEN BNFail("IndexError")
    ELSE
        LET mean_tensor == pt[1]
            variance_tensor == pt[2]
            global_scale == pt[3][1]
            scale_init == InvScale(global_scale)
        IN  IF scale_init[2] = 0 THEN BNFail("ZeroDivisionError")
            ELSE
            [status |-> "ok", params |-> 4, output |-> TRUE,
             inv_scale |-> Some(scale_init),
             mean_init |-> Tensor([i \in DOMAIN mean_tensor |->
                                      RatTimes(mean_tensor[i], scale_init)]),
             var_init |-> Tensor([i \in DOMAIN variance_tensor |->
                                      RatTimes(variance_tensor[i], scale_init)]),
             scale_init |-> IF Len(pt) = 5
                            THEN Tensor([i \in DOMAIN pt[4] |-> Rat(pt[4][i], 1)])
                            ELSE ScalarRat(scale_init),
             bias_init |-> IF Len(pt) = 5
                           THEN Tensor([i \in DOMAIN pt[5] |-> Rat(pt[5][i], 1)])
                           ELSE Scalar(0)]

\* A builder that reads inputs[0] only (relu, dropout, softmax, ...).
UnaryBuilder(inputs) ==
    IF Len(inputs) < 1
    THEN [status |-> "IndexError", output |-> FALSE, operands |-> <<>>]
    ELSE [status |-> "ok", output |-> TRUE, operands |-> <<inputs[1]>>]

\* A builder that reads inputs[0] and inputs[1] and hands both to the native op.
PairwiseBuilder(inputs) ==
    IF Len(inputs) < 2
    THEN [status |-> "IndexError", output |-> FALSE, operands |-> <<>>]
    ELSE [status |-> "ok", output |-> TRUE, operands |-> <<inputs[1], inputs[2]>>]

relu(cntk_layer, inputs) == UnaryBuilder(inputs)
plus(cntk_layer, inputs) == PairwiseBuilder(inputs)
classification_error(cntk_layer, inputs) == PairwiseBuilder(inputs)
cross_entropy_with_softmax(cntk_layer, inputs) == PairwiseBuilder(inputs)
psroi_pooling(cntk_layer, inputs) == PairwiseBuilder(inputs)

\* getattr(ApiSetup, cntk_layer.op_type.name)(cntk_layer, local_inputs):
\* the status of the call ("ok" or the exception raised).
Dispatch(cntk_layer, local_inputs) ==
    LET name == cntk_layer.op_type IN
    IF name \notin ApiSetupNames THEN "AttributeError"
    ELSE CASE name = "batch_normalization" ->
                  batch_normalization(cntk_layer, local_inputs).status
           [] name = "relu" -> relu(cntk_layer, local_inputs).status
           [] name = "plus" -> plus(cntk_layer, local_inputs).status
           [] name = "classification_error" ->
                  classification_error(cntk_layer, local_inputs).status
           [] name = "cross_entropy_with_softmax" ->
                  cross_entropy_with_softmax(cntk_layer, local_inputs).status
           [] name = "psroi_pooling" ->
                  psroi_pooling(cntk_layer, local_inputs).status

\* ------------------------------------------------------------------------
\* State
\* ------------------------------------------------------------------------
VARIABLES
    \* the uni-model and the configuration (read-only inputs)
    data_provider,       \* cntk_uni_model.data_provider: the providers' op_names
    cntk_tensor,         \* model_solver.cntk_tensor: None or Some(set of keys)
    cntk_sorted_layers,  \* cntk_uni_model.cntk_sorted_layers, as far as the loop has read it
    cntk_layers,         \* cntk_uni_model.cntk_layers: the descriptors of the layers built
    \* CntkApiInstance
    functions,           \* self._functions: key -> handle
    output,              \* self._output: None or Some(set of handles combined)
    usused_func,         \* the local set of instance_functions
    idx,                 \* position in cntk_sorted_layers of the layer being processed
    pc,                  \* position of the assembler / of the component in use
    nh,                  \* number of handles created so far
    placeholders,        \* the cntk.input calls made: <<[name, source, handle]>>
    error,               \* None or Some([layer, kind]): the exception raised
    \* a builder called on its own
    call,                \* None or Some([name, cntk_layer, inputs, result])
    \* weights_parameter
    wp,                  \* None or Some([kernel, dilation, init, result])
    \* Evaluator
    ev                   \* the evaluator's configuration and progress

asm_vars == <<data_provider, cntk_tensor, cntk_sorted_layers, cntk_layers,
              functions, output, usused_func, idx, nh, placeholders, error>>
vars == <<asm_vars, pc, call, wp, ev>>

EmptyMap == [k \in {} |-> 0]

\* CntkApiInstance.__init__, up to the call of __instance__
AsmFields ==
    /\ functions = EmptyMap
    /\ output = None
    /\ usused_func = {}
    /\ idx = 0
    /\ nh = 0
    /\ placeholders = <<>>
    /\ error = None
    /\ cntk_layers = EmptyMap

\* ------------------------------------------------------------------------
\* CntkApiInstance.instance_input
\* ------------------------------------------------------------------------
\* The names for which a placeholder is created, in order, with their source.
\* (variant: the providers bound as well as the override entries)
InputSourcesMixed(tensor, providers) ==
    (IF tensor # None
     THEN [i \in 1..Cardinality(tensor[1]) |->
              [name |-> SetToSeq(tensor[1])[i], source |-> "override"]]
     ELSE <<>>)
    \o [i \in DOMAIN providers |-> [name |-> providers[i], source |-> "provider"]]

InputSources(tensor, providers) ==
    IF tensor # None
    THEN [i \in 1..Cardinality(tensor[1]) |->
             [name |-> SetToSeq(tensor[1])[i], source |-> "override"]]
    ELSE [i \in DOMAIN providers |-> [name |-> providers[i], source |-> "provider"]]

\* self._functions[key] = input_var, for each source in turn; the i-th
\* placeholder gets handle base + i.  A later binding of a key replaces an earlier.
RECURSIVE BindAll(_, _, _)
BindAll(fns, srcs, base) ==
    IF srcs = <<>> THEN fns
    ELSE BindAll((Head(srcs).name :> (base + 1)) @@ fns, Tail(srcs), base + 1)

instance_input ==
    /\ pc = "uninitialized"
    /\ LET srcs == InputSources(cntk_tensor, data_provider) IN
       /\ functions' = BindAll(functions, srcs, nh)
       /\ placeholders' = [i \in DOMAIN srcs |->
                              [name |-> srcs[i].name, source |-> srcs[i].source,
                               handle |-> nh + i]]
       /\ nh' = nh + Len(srcs)
    /\ pc' = "inputs_bound"
    /\ UNCHANGED <<data_provider, cntk_tensor, cntk_sorted_layers, cntk_layers,
                   output, usused_func, idx, error, call, wp, ev>>

\* ------------------------------------------------------------------------
\* CntkApiInstance.instance_functions
\* ------------------------------------------------------------------------
AsmOpTypes == {"relu", "plus", "batch_normalization", "embedding"}
InputRefs == LayerIds \cup {"x"}

\* The descriptors the registry may hold under an identifier; a
\* batch_normalization layer carries no pretrained tensor or a single one.
DescriptorsOf ==
    [id \in LayerIds |->
       UNION {
         {[op_name |-> id, op_type |-> t, inputs |-> ins, parameter_tensor |-> pt] :
             pt \in IF t = "batch_normalization" THEN {<<>>, << <<1>> >>}
                                                    ELSE {<<>>}} :
         t \in AsmOpTypes, ins \in SeqsBetween(InputRefs, 0, MaxInputs)}]

\* cntk_layers[cntk_sorted_layer]: the descriptor read before, if any.
LayerDescriptors(id, registry) ==
    IF id \in DOMAIN registry THEN {registry[id]} ELSE DescriptorsOf[id]

\* usused_func = set()
\* (variant: the set seeded with every handle bound so far)
InitialUnusedAll(fns) == Range(fns)

InitialUnused(fns) == {}

\* if self._functions[local_input] in usused_func: usused_func.remove(...)
\* (variant: the removal left out)
ConsumeNothing(unused, h) == unused

Consume(unused, h) == IF h \in unused THEN unused \ {h} ELSE unused

\* The loop over cntk_layer.inputs: it stops at the first identifier that
\* self._functions lacks (KeyError), with the removals made so far.
RECURSIVE ResolveInputs(_, _, _, _)
ResolveInputs(inputs, fns, unused, acc) ==
    IF inputs = <<>>
    THEN [ok |-> TRUE, local_inputs |-> acc, unused |-> unused]
    ELSE IF Head(inputs) \notin DOMAIN fns
    THEN [ok |-> FALSE, local_inputs |-> acc, unused |-> unused]
    ELSE ResolveInputs(Tail(inputs), fns, Consume(unused, fns[Head(inputs)]),
                       Append(acc, fns[Head(inputs)]))

\* An exception leaves the loop and instance_functions, and __init__ with it.
\* (variant: the exception caught and the loop carried on)
AfterLayerSwallow(status) == "assembling"

AfterLayer(status) == IF status = "ok" THEN "assembling" ELSE "failed"

begin_functions ==
    /\ pc = "inputs_bound"
    /\ usused_func' = InitialUnused(functions)
    /\ idx' = 1
    /\ pc' = "assembling"
    /\ UNCHANGED <<data_provider, cntk_tensor, cntk_sorted_layers, cntk_layers,
                   functions, output, nh, placeholders, error, call, wp, ev>>

Raise(id, kind, unused) ==
    /\ cntk_sorted_layers' = Append(cntk_sorted_layers, id)
    /\ pc' = AfterLayer(kind)
    /\ error' = Some([layer |-> id, kind |-> kind])
    /\ usused_func' = unused
    /\ UNCHANGED <<data_provider, cntk_tensor, cntk_layers,
                   functions, output, idx, nh, placeholders, call, wp, ev>>

\* One iteration of the loop over cntk_sorted_layers: the list yields its
\* next identifier, which is appended to the part read so far.
process_layer ==
    /\ pc = "assembling"
    /\ Len(cntk_sorted_layers) < MaxSorted
    /\ \E id \in LayerIds :
       \/ /\ id \notin DOMAIN cntk_layers      \* cntk_layers[cntk_sorted_layer]
          /\ Raise(id, "KeyError", usused_func)
       \/ \E cntk_layer \in LayerDescriptors(id, cntk_layers) :
            /\ LET r == ResolveInputs(cntk_layer.inputs, functions, usused_func, <<>>)
                   status == IF r.ok THEN Dispatch(cntk_layer, r.local_inputs)
                             ELSE "KeyError"
               IN  IF status = "ok"
                   THEN /\ cntk_sorted_layers' = Append(cntk_sorted_layers, id)
                        /\ functions' = (cntk_layer.op_name :> (nh + 1)) @@ functions
                        /\ usused_func' = r.unused \cup {nh + 1}
                        /\ nh' = nh + 1
                        /\ idx' = idx + 1
                        /\ cntk_layers' = (id :> cntk_layer) @@ cntk_layers
                        /\ pc' = AfterLayer(status)
                        /\ UNCHANGED <<data_provider, cntk_tensor,
                                       output, placeholders, error, call, wp, ev>>
                   ELSE Raise(id, status, r.unused)

\* self._output = ops.combine(list(usused_func), name='outputs')
\* when the list is exhausted
combine ==
    /\ pc = "assembling"
    /\ idx > Len(cntk_sorted_layers)
    /\ output' = Some(usused_func)
    /\ pc' = "finalized"
    /\ UNCHANGED <<data_provider, cntk_tensor, cntk_sorted_layers, cntk_layers,
                   functions, usused_func, idx, nh, placeholders, error, call, wp, ev>>

Idle == /\ call = None /\ wp = None /\ ev = None

\* The inputs the assembler is run with: none, one provider, a provider whose
\* name is also a layer's, and an override mapping in place of the provider.
\* No layer refers to the override entry "z".
AsmInputConfigs ==
    {[data_provider |-> <<>>, cntk_tensor |-> None],
     [data_provider |-> <<"x">>, cntk_tensor |-> None],
     [data_provider |-> <<"A">>, cntk_tensor |-> None],
     [data_provider |-> <<"A">>, cntk_tensor |-> Some({"x", "z"})]}

InitAsm ==
    /\ pc = "uninitialized"
    /\ \E c \in AsmInputConfigs :
          data_provider = c.data_provider /\ cntk_tensor = c.cntk_tensor
    /\ cntk_sorted_layers = <<>>
    /\ AsmFields
    /\ Idle

NextAsm == instance_input \/ begin_functions \/ process_layer \/ combine

SpecAsm == InitAsm /\ [][NextAsm]_vars

\* instance_input on its own, over every combination of providers and override.
InitInput ==
    /\ pc = "uninitialized"
    /\ data_provider \in SeqsBetween(ProviderNames, 0, MaxProviders)
    /\ cntk_tensor \in {None} \cup {Some(S) : S \in SUBSET OverrideKeys}
    /\ cntk_sorted_layers = <<>>
    /\ AsmFields
    /\ Idle

NextInput == instance_input

SpecInput == InitInput /\ [][NextInput]_vars

\* ------------------------------------------------------------------------
\* Properties of the assembler
\* ------------------------------------------------------------------------
SortedIds == Range(cntk_sorted_layers)

NoRepeat(seq) == \A i, j \in DOMAIN seq : seq[i] = seq[j] => i = j

\* cntk_sorted_layers is a topological order of the layers read: every layer
\* once, and every input that names a layer names one placed earlier.
IsTopological ==
    /\ NoRepeat(cntk_sorted_layers)
    /\ SortedIds \subseteq DOMAIN cntk_layers
    /\ \A i \in DOMAIN cntk_sorted_layers :
         \A ref \in Range(cntk_layers[cntk_sorted_layers[i]].inputs) :
            ref \in SortedIds =>
               \E j \in 1..(i - 1) : cntk_sorted_layers[j] = ref

\* The layers that no other layer lists among its inputs.
TerminalLayers ==
    {id \in SortedIds :
       \A other \in SortedIds \ {id} : id \notin Range(cntk_layers[other].inputs)}

\* C1: once a model given in topological order is assembled, the handles
\* passed to combine are exactly the outputs of the layers that no other
\* layer lists among its inputs.
C1_TerminalSetExact ==
    (pc = "finalized" /\ IsTopological) =>
        /\ output # None
        /\ output[1] = {functions[id] : id \in TerminalLayers}
        /\ \A id \in SortedIds \ TerminalLayers : functions[id] \notin output[1]

\* A finished assembly of three layers in which one layer feeds two others
\* and a single terminal output remains.
C1_Witness ==
    /\ pc = "finalized"
    /\ IsTopological
    /\ Len(cntk_sorted_layers) = 3
    /\ \E a \in SortedIds :
         Cardinality({o \in SortedIds \ {a} :
                        a \in Range(cntk_layers[o].inputs)}) = 2
    /\ Cardinality(output[1]) = 1

\* C2 (as claimed): no step rebinds or removes a key of the symbol table.
C2_SingleAssignment ==
    [][\A k \in DOMAIN functions :
          k \in DOMAIN functions' /\ functions'[k] = functions[k]]_vars

\* C3: a failure while a layer is processed ends the assembly there: the
\* loop stays at the failing layer and takes no further step, every handle
\* bound was created before it (the failing layer adds no entry), and no
\* combined output exists.
C3_FailureAborts ==
    error # None =>
        /\ pc = "failed"
        /\ ~ENABLED NextAsm
        /\ output = None
        /\ idx = Len(cntk_sorted_layers)
        /\ cntk_sorted_layers[idx] = error[1].layer
        /\ nh = Len(placeholders) + (idx - 1)
        /\ DOMAIN functions =
              {placeholders[i].name : i \in DOMAIN placeholders}
              \cup {cntk_sorted_layers[j] : j \in 1..(idx - 1)}
        /\ Range(functions) \subseteq 1..nh

\* A builder raised on the second layer, after the first was built.
C3_Witness ==
    /\ error # None
    /\ error[1].kind \in {"IndexError", "AssertionError"}
    /\ idx = 2
    /\ Cardinality(DOMAIN cntk_layers) = 1
    /\ error[1].layer \notin DOMAIN functions

\* C6: the placeholders created are one per override entry when an override
\* mapping is supplied (none for a data provider), and one per data provider
\* under its op_name otherwise.
C6_InputSourceExclusive ==
    pc # "uninitialized" =>
        IF cntk_tensor # None
        THEN /\ Len(placeholders) = Cardinality(cntk_tensor[1])
             /\ {placeholders[i].name : i \in DOMAIN placeholders} = cntk_tensor[1]
             /\ \A i \in DOMAIN placeholders : placeholders[i].source = "override"
        ELSE /\ Len(placeholders) = Len(data_provider)
             /\ \A i \in DOMAIN placeholders :
                  /\ placeholders[i].name = data_provider[i]
                  /\ placeholders[i].source = "provider"

\* Inputs bound with both an override mapping and data providers present,
\* under different names.
C6_Witness ==
    /\ pc = "inputs_bound"
    /\ cntk_tensor # None
    /\ cntk_tensor[1] # {}
    /\ data_provider # <<>>
    /\ Range(data_provider) \cap cntk_tensor[1] = {}
    /\ DOMAIN functions = cntk_tensor[1]

PlaceholderHandles == {placeholders[i].handle : i \in DOMAIN placeholders}

\* C10: no input placeholder is ever in the terminal-output set, nor among
\* the handles combined; a model without layers combines the empty set.
C10_PlaceholdersNeverTerminal ==
    /\ usused_func \cap PlaceholderHandles = {}
    /\ output # None => output[1] \cap PlaceholderHandles = {}
    /\ (pc = "finalized" /\ cntk_sorted_layers = <<>>) => output = Some({})

\* A finished assembly with a layer and a placeholder that no layer consumed.
C10_Witness ==
    /\ pc = "finalized"
    /\ cntk_sorted_layers # <<>>
    /\ \E i \in DOMAIN placeholders :
         \A id \in SortedIds :
            placeholders[i].name \notin Range(cntk_layers[id].inputs)

\* ------------------------------------------------------------------------
\* The builders called on their own
\* ------------------------------------------------------------------------
DataVals == {0, 2}
Tensors == [1..DataLen -> DataVals]
BuilderInputs == SeqsBetween({1, 2}, 0, MaxBuilderInputs)

Descriptor(name, pt) ==
    [op_name |-> "layer", op_type |-> name, inputs |-> <<>>, parameter_tensor |-> pt]

Called(name, cntk_layer, inputs, result) ==
    Some([name |-> name, cntk_layer |-> cntk_layer, inputs |-> inputs,
          result |-> result])

call_batch_normalization ==
    /\ pc = "builder_idle"
    /\ \E pt \in SeqsBetween(Tensors, 0, MaxTensors), inputs \in BuilderInputs :
          LET cntk_layer == Descriptor("batch_normalization", pt) IN
          call' = Called("batch_normalization", cntk_layer, inputs,
                         batch_normalization(cntk_layer, inputs))
    /\ pc' = "builder_done"
    /\ UNCHANGED <<asm_vars, wp, ev>>

call_relu ==
    /\ pc = "builder_idle"
    /\ \E inputs \in BuilderInputs :
          LET cntk_layer == Descriptor("relu", <<>>) IN
          call' = Called("relu", cntk_layer, inputs, relu(cntk_layer, inputs))
    /\ pc' = "builder_done"
    /\ UNCHANGED <<asm_vars, wp, ev>>

call_plus ==
    /\ pc = "builder_idle"
    /\ \E inputs \in BuilderInputs :
          LET cntk_layer == Descriptor("plus", <<>>) IN
          call' = Called("plus", cntk_layer, inputs, plus(cntk_layer, inputs))
    /\ pc' = "builder_done"
    /\ UNCHANGED <<asm_vars, wp, ev>>

call_classification_error ==
    /\ pc = "builder_idle"
    /\ \E inputs \in BuilderInputs :
          LET cntk_layer == Descriptor("classification_error", <<>>) IN
          call' = Called("classification_error", cntk_layer, inputs, classification_error(cntk_layer, inputs))
    /\ pc' = "builder_done"
    /\ UNCHANGED <<asm_vars, wp, ev>>

call_cross_entropy_with_softmax ==
    /\ pc = "builder_idle"
    /\ \E inputs \in BuilderInputs :
          LET cntk_layer == Descriptor("cross_entropy_with_softmax", <<>>) IN
          call' = Called("cross_entropy_with_softmax", cntk_layer, inputs, cross_entropy_with_softmax(cntk_layer, inputs))
    /\ pc' = "builder_done"
    /\ UNCHANGED <<asm_vars, wp, ev>>

call_psroi_pooling ==
    /\ pc = "builder_idle"
    /\ \E inputs \in BuilderInputs :
          LET cntk_layer == Descriptor("psroi_pooling", <<>>) IN
          call' = Called("psroi_pooling", cntk_layer, inputs, psroi_pooling(cntk_layer, inputs))
    /\ pc' = "builder_done"
    /\ UNCHANGED <<asm_vars, wp, ev>>

AsmUnused ==
    /\ data_provider = <<>>
    /\ cntk_tensor = None
    /\ cntk_sorted_layers = <<>>
    /\ AsmFields

InitBuilders ==
    /\ pc = "builder_idle"
    /\ AsmUnused
    /\ Idle

NextBuilders ==
    \/ call_batch_normalization
    \/ call_relu
    \/ call_plus
    \/ call_classification_error
    \/ call_cross_entropy_with_softmax
    \/ call_psroi_pooling

SpecBuilders == InitBuilders /\ [][NextBuilders]_vars

BNCall == call # None /\ call[1].name = "batch_normalization"
BNTensors == call[1].cntk_layer.parameter_tensor
BNResult == call[1].result

\* C4: batch_normalization raises its validation error exactly when
\* parameter_tensor holds 1 or 2 tensors (given the input it normalizes),
\* and then no parameter and no output has been created.
C4_BatchNormValidation ==
    BNCall =>
        LET n == Len(BNTensors) IN
        /\ BNResult.status = "AssertionError" =>
              /\ n \in {1, 2}
              /\ BNResult.params = 0
              /\ ~BNResult.output
        /\ n \in {1, 2} =>
              /\ BNResult.status # "ok"
              /\ BNResult.params = 0
              /\ ~BNResult.output
              /\ Len(call[1].inputs) >= 1 => BNResult.status = "AssertionError"
        /\ (n = 0 \/ n >= 3) => BNResult.status # "AssertionError"

\* batch_normalization called with two tensors raised the validation error.
C4_Witness ==
    /\ BNCall
    /\ Len(BNTensors) = 2
    /\ Len(call[1].inputs) = 1
    /\ BNResult.status = "AssertionError"

\* C5 (as claimed): a pairwise builder given other than two inputs fails and
\* produces no output.
C5_PairwiseArityChecked ==
    (call # None /\ call[1].name \in PairwiseNames /\ Len(call[1].inputs) # 2) =>
        /\ call[1].result.status # "ok"
        /\ ~call[1].result.output

\* C9: with pretrained tensors, inv_scale is 1/global_scale, or 0 when
\* global_scale is 0 (no division failure), and the running mean and
\* variance initialisers are the raw values times inv_scale.
C9_InvScale ==
    BNCall =>
        /\ BNResult.status # "ZeroDivisionError"
        /\ (Len(BNTensors) >= 3 /\ Len(call[1].inputs) >= 1) =>
              LET g == BNTensors[3][1]
                  inv == BNResult.inv_scale[1]
                  mean == BNResult.mean_init.v
                  var == BNResult.var_init.v
              IN  /\ BNResult.status = "ok"
                  /\ inv[2] # 0
                  /\ g # 0 => inv[1] * g = inv[2]
                  /\ g = 0 => inv[1] = 0
                  /\ BNResult.mean_init.kind = "tensor"
                  /\ BNResult.var_init.kind = "tensor"
                  /\ \A i \in 1..DataLen :
                       /\ mean[i][2] # 0 /\ var[i][2] # 0
                       /\ g # 0 => /\ mean[i][1] * g = BNTensors[1][i] * mean[i][2]
                                   /\ var[i][1] * g = BNTensors[2][i] * var[i][2]
                       /\ g = 0 => mean[i][1] = 0 /\ var[i][1] = 0

\* batch_normalization built with global_scale 0 and non-zero statistics, in
\* the five-tensor form.
C9_Witness ==
    /\ BNCall
    /\ Len(BNTensors) = 5
    /\ BNResult.status = "ok"
    /\ BNTensors[3][1] = 0
    /\ BNTensors[1][1] # 0

\* ------------------------------------------------------------------------
\* BlockApiSetup.convolution.weights_parameter: dilated-kernel expansion
\* ------------------------------------------------------------------------
\* A kernel tensor has shape (channels, kernel[0], kernel[1]) and is the
\* nested sequence t[c][i][j]; Python's 0-based axes and indices are shifted
\* by one where a sequence is indexed.

\* [(k - 1) * d + 1 for k, d in zip(kernel, dilation)]
DilationKernel(kernel, dilation) ==
    [a \in DOMAIN kernel |-> (kernel[a] - 1) * dilation[a] + 1]

\* kernel_sequence = [x * dilation[axis] for x in range(kernel[axis])]
KernelSequence(k, d) == {x * d : x \in 0..(k - 1)}

\* list(set(range(dilation_kernel[axis])) ^ set(kernel_sequence)), ascending
\* (the order CPython iterates a set of small integers in), then
\* insert_lines[index] -= index
RECURSIVE Ascending(_)
Ascending(S) ==
    IF S = {} THEN <<>>
    ELSE LET m == CHOOSE a \in S : \A b \in S : a <= b
         IN  <<m>> \o Ascending(S \ {m})

SymDiff(S, T) == (S \ T) \cup (T \ S)

InsertLines(k, d) ==
    LET lines == Ascending(SymDiff(0..((k - 1) * d), KernelSequence(k, d)))
    IN  [index \in DOMAIN lines |-> lines[index] - (index - 1)]

\* numpy.insert on one axis of extent Len(seq): each index counts in the
\* array before insertion and must not exceed its extent.
InsertOk(n, idxs) == \A j \in DOMAIN idxs : idxs[j] >= 0 /\ idxs[j] <= n

InsertSeq(seq, idxs, zero) ==
    LET pos == {idxs[j] + (j - 1) : j \in DOMAIN idxs}
    IN  [r \in 1..(Len(seq) + Len(idxs)) |->
            IF (r - 1) \in pos THEN zero
            ELSE seq[r - Cardinality({q \in pos : q < r - 1})]]

Zeros(n) == [j \in 1..n |-> 0]

\* numpy.insert(t, idxs, 0, axis) for a tensor of three axes (axis 0-based).
NumpyInsert(t, idxs, axis) ==
    IF axis = 2
    THEN [c \in DOMAIN t |-> [i \in DOMAIN t[c] |-> InsertSeq(t[c][i], idxs, 0)]]
    ELSE IF axis = 1
    THEN [c \in DOMAIN t |-> InsertSeq(t[c], idxs, Zeros(Len(t[c][1])))]
    ELSE InsertSeq(t, idxs, [i \in DOMAIN t[1] |-> Zeros(Len(t[1][1]))])

Extent(t, axis) ==
    IF axis = 0 THEN Len(t) ELSE IF axis = 1 THEN Len(t[1]) ELSE Len(t[1][1])

NDim == 3  \* len(init.shape)

\* axis=len(init.shape) - axis - 1
InsertAxis(axis) == NDim - axis - 1

\* The loop over range(len(dilation)), from `axis` on (0-based).
RECURSIVE ExpandFrom(_, _, _, _)
ExpandFrom(used_init, kernel, dilation, axis) ==
    IF axis >= Len(dilation) THEN [status |-> "ok", used_init |-> used_init]
    ELSE LET lines == InsertLines(kernel[axis + 1], dilation[axis + 1])
             np_axis == InsertAxis(axis)
         IN  IF ~InsertOk(Extent(used_init, np_axis), lines)
             THEN [status |-> "IndexError", used_init |-> used_init]
             ELSE ExpandFrom(NumpyInsert(used_init, lines, np_axis),
                             kernel, dilation, axis + 1)

\* weights_parameter: the initial value handed to ops.parameter
weights_parameter(kernel, dilation, init) ==
    IF DilationKernel(kernel, dilation) # kernel
    THEN ExpandFrom(init, kernel, dilation, 0)
    ELSE [status |-> "ok", used_init |-> init]

\* A kernel tensor whose taps are pairwise different and non-zero.
KernelTensor(channels, kernel) ==
    [c \in 1..channels |-> [i \in 1..kernel[1] |-> [j \in 1..kernel[2] |->
        c * 100 + i * 10 + j]]]

call_weights_parameter ==
    /\ pc = "weights_idle"
    /\ \E kernel \in [1..2 -> 1..MaxKernel], dilation \in [1..2 -> 1..MaxDilation],
          channels \in 1..MaxChannels :
          LET init == KernelTensor(channels, kernel) IN
          wp' = Some([kernel |-> kernel, dilation |-> dilation, init |-> init,
                      result |-> weights_parameter(kernel, dilation, init)])
    /\ pc' = "weights_done"
    /\ UNCHANGED <<asm_vars, call, ev>>

InitWeights ==
    /\ pc = "weights_idle"
    /\ AsmUnused
    /\ Idle

NextWeights == call_weights_parameter

SpecWeights == InitWeights /\ [][NextWeights]_vars

\* The expansion the claim describes: on spatial axis a the extent is
\* (k_a - 1) * d_a + 1, the taps sit at the multiples of d_a, zeros elsewhere.
Dilated(init, kernel, dilation) ==
    [c \in DOMAIN init |->
       [i \in 1..((kernel[1] - 1) * dilation[1] + 1) |->
          [j \in 1..((kernel[2] - 1) * dilation[2] + 1) |->
             IF (i - 1) % dilation[1] = 0 /\ (j - 1) % dilation[2] = 0
             THEN init[c][((i - 1) \div dilation[1]) + 1][((j - 1) \div dilation[2]) + 1]
             ELSE 0]]]

\* C8 (as claimed): for every kernel shape and per-axis dilation the expanded
\* tensor is the dilated kernel, and the kernel itself when every d is 1.
C8_DilatedExpansion ==
    wp # None =>
        /\ wp[1].result.status = "ok"
        /\ wp[1].result.used_init = Dilated(wp[1].init, wp[1].kernel, wp[1].dilation)
        /\ (\A a \in 1..2 : wp[1].dilation[a] = 1) =>
              wp[1].result.used_init = wp[1].init

\* The same, for kernels and dilations that agree on the two spatial axes.
SquareDilatedExpansion ==
    (wp # None /\ wp[1].kernel[1] = wp[1].kernel[2]
               /\ wp[1].dilation[1] = wp[1].dilation[2]) =>
        /\ wp[1].result.status = "ok"
        /\ wp[1].result.used_init = Dilated(wp[1].init, wp[1].kernel, wp[1].dilation)

\* ------------------------------------------------------------------------
\* Evaluator
\* ------------------------------------------------------------------------
ReportEvery == 100

\* Evaluator.create_reader: the transforms it sets up.  xforms.mean is
\* called with whatever mean_file holds.
create_reader(crop_type, mean_file) ==
    (IF crop_type THEN <<"crop">> ELSE <<>>) \o <<"scale", "mean">>

EvStep(next_pc, changes) ==
    /\ ev' = Some([f \in DOMAIN ev[1] |->
                     IF f \in DOMAIN changes THEN changes[f] ELSE ev[1][f]])
    /\ pc' = next_pc
    /\ UNCHANGED <<asm_vars, call, wp>>

\* eval_model up to the test of map_file
eval_start ==
    /\ pc = "eval_idle"
    /\ LET out == ev[1].stdout \o <<"start eval...", "launch map and mean files">> IN
       IF ev[1].index_map = None
       THEN EvStep("eval_returned",
                   [stdout |-> out \o <<"fail to locate index files, eval exit.">>])
       ELSE EvStep("eval_reader", [stdout |-> out])

\* create_reader and the trainer.  With no mean file the native
\* xforms.mean(None) either raises or hands back a transform.
eval_create_reader ==
    /\ pc = "eval_reader"
    /\ \/ EvStep("eval_loop",
                 [reader |-> Some(create_reader(ev[1].crop_type, ev[1].mean_file))])
       \/ /\ ev[1].mean_file = None
          /\ EvStep("eval_raised", [raised |-> Some("TypeError")])

\* one pass of the loop over the minibatches
eval_minibatch ==
    /\ pc = "eval_loop"
    /\ ev[1].i < ev[1].num_batches
    /\ EvStep("eval_loop",
              [i |-> ev[1].i + 1,
               stdout |-> IF ev[1].i % ReportEvery = 0
                          THEN Append(ev[1].stdout, "Evaluate error")
                          ELSE ev[1].stdout])

\* the final line: test_result / int(num_samples / test_minibatch_size)
eval_final ==
    /\ pc = "eval_loop"
    /\ ev[1].i = ev[1].num_batches
    /\ IF ev[1].num_batches = 0
       THEN EvStep("eval_raised", [raised |-> Some("ZeroDivisionError")])
       ELSE EvStep("eval_done", [stdout |-> Append(ev[1].stdout, "Final evaluate error")])

FileOptions(name) == {None, Some(name)}

InitEval ==
    /\ pc = "eval_idle"
    /\ AsmUnused
    /\ call = None /\ wp = None
    /\ ev \in {Some([index_map |-> m, mean_file |-> f, crop_type |-> c,
                     num_batches |-> n, stdout |-> <<>>, reader |-> None,
                     i |-> 0, raised |-> None]) :
                 m \in FileOptions("val_map.txt"), f \in FileOptions("mean.xml"),
                 c \in BOOLEAN, n \in 0..MaxBatches}

NextEval == eval_start \/ eval_create_reader \/ eval_minibatch \/ eval_final

SpecEval == InitEval /\ [][NextEval]_vars

\* C7 (as claimed): with the index file or the mean file not configured,
\* eval_model writes a diagnostic and returns early: it never raises, builds
\* no reader and runs no minibatch.
C7_MissingFileGraceful ==
    (ev # None /\ (ev[1].index_map = None \/ ev[1].mean_file = None)) =>
        /\ pc \in {"eval_idle", "eval_returned"}
        /\ pc = "eval_returned" =>
              "fail to locate index files, eval exit." \in Range(ev[1].stdout)
        /\ ev[1].reader = None
        /\ ev[1].i = 0
        /\ ev[1].raised = None

====
